---------------------------- MODULE Spec2Model ----------------------------
(***************************************************************************)
(* A model of the muse-weaver-ai-bridge plugin: the error redactor, the    *)
(* per-provider adapters behind callAi, the timeout wrapper around fetch,  *)
(* and the two Ollama lookups.                                             *)
(*                                                                         *)
(* A JavaScript string is a sequence of one-character strings, so that the *)
(* regular expressions of redactError are computed character by character. *)
(* A JSON value is a tagged record (JsUndef, JsNull, JsStr, JsNum, ...).   *)
(***************************************************************************)
EXTENDS Integers, Sequences, FiniteSets, TLC

VARIABLES
    settings,   \* plugin.settings: provider id and the per-provider map
    op,         \* the function in flight: "none", "callAi", "list", "show"
    phase,      \* "idle", "fetching", "readingBody", "done"
    now,        \* the clock, in ms
    startedAt,  \* the clock when fetchWithTimeout armed its timer
    timerArmed, \* the setTimeout of fetchWithTimeout is armed and not cleared
    requests,   \* outbound fetch calls issued by the invocation
    bodyRead,   \* res.json() has been called
    response,   \* what the server sent: status and parsed body
    settled,    \* the returned promise: "pending", "resolved", "rejected"
    result,     \* the value the promise resolved with
    rawError,   \* the failure text as built, before any redaction
    shown,      \* the text the connection test hands to t.testFail
    rx,         \* redaction run: the input text
    rk,         \* redaction run: the known secret ("" when none)
    rout1,      \* redaction run: redactError(rx, rk)
    rout2,      \* redaction run: redactError(rout1, rk)
    rpc,        \* redaction run: "start", "once", "twice"
    ps,         \* resolver run: the settings object handed to migrateSettings
    pm1,        \* resolver run: migrateSettings(ps)
    pm2,        \* resolver run: migrateSettings(pm1)
    pconf,      \* resolver run: isConfigured() on pm1
    pmodel,     \* resolver run: getModel(pm1)
    ppc,        \* resolver run: "start", "once", "twice", "configured", "model"
    dname,      \* diagnostics run: the model name
    dsize,      \* diagnostics run: the parameter size /api/show reported
    drate,      \* diagnostics run: getJapaneseRating(dname)
    ddiag,      \* diagnostics run: diagnoseModel(dname, dsize)
    dpc,        \* diagnostics run: "start", "rated", "diagnosed"
    heap,       \* tab: the default objects and every object that was plugin.settings
    cur,        \* tab: the object that is plugin.settings now (0 before onload)
    tab,        \* tab: open, the listing call whose dropdown is shown, its options
    listings,   \* tab: the renderOllamaModelSelector calls started so far
    saved,      \* tab: what data.json holds
    lang,       \* tab: the language of the interface, "ja" or another
    events      \* tab: handler events so far

callVars == <<settings, op, phase, now, startedAt, timerArmed, requests,
              bodyRead, response, settled, result, rawError, shown>>
redactVars == <<rx, rk, rout1, rout2, rpc>>
resolveVars == <<ps, pm1, pm2, pconf, pmodel, ppc>>
diagVars == <<dname, dsize, drate, ddiag, dpc>>
tabVars == <<heap, cur, tab, listings, saved, lang, events>>
vars == <<settings, op, phase, now, startedAt, timerArmed, requests,
          bodyRead, response, settled, result, rawError, shown,
          rx, rk, rout1, rout2, rpc,
          ps, pm1, pm2, pconf, pmodel, ppc,
          dname, dsize, drate, ddiag, dpc,
          heap, cur, tab, listings, saved, lang, events>>
\* what an action of one model leaves alone: the variables of the others
notCallVars == <<redactVars, resolveVars, diagVars, tabVars>>
notRedactVars == <<callVars, resolveVars, diagVars, tabVars>>
notResolveVars == <<callVars, redactVars, diagVars, tabVars>>
notDiagVars == <<callVars, redactVars, resolveVars, tabVars>>
notTabVars == <<callVars, redactVars, resolveVars, diagVars>>

---------------------------------------------------------------------------
(* Bounds of the model *)

\* the longest redaction input, in fragments
MaxFrags == 3
\* the clock stops here
MaxTime == 40000
\* the clock's step
TickMs == 10000

---------------------------------------------------------------------------
(* Strings *)

UpperLetters == <<"A","B","C","D","E","F","G","H","I","J","K","L","M",
                  "N","O","P","Q","R","S","T","U","V","W","X","Y","Z">>
LowerLetters == <<"a","b","c","d","e","f","g","h","i","j","k","l","m",
                  "n","o","p","q","r","s","t","u","v","w","x","y","z">>
DigitChars == <<"0","1","2","3","4","5","6","7","8","9">>

\* the /i flag: a letter compared by its lower-case form
LowerOf(c) ==
    IF \E i \in 1..26 : UpperLetters[i] = c
    THEN LowerLetters[CHOOSE i \in 1..26 : UpperLetters[i] = c]
    ELSE c

ToLowerCase(s) == [i \in 1..Len(s) |-> LowerOf(s[i])]

\* \s (the white space the modelled texts use)
IsSpace(c) == c \in {" ", "\t", "\n", "\r"}

IsDigit(c) == \E i \in 1..10 : DigitChars[i] = c

\* p occurs in s at position i
MatchAt(s, i, p) ==
    /\ i + Len(p) - 1 <= Len(s)
    /\ \A j \in 1..Len(p) : s[i + j - 1] = p[j]

\* p (given in lower case) occurs in s at position i, letters compared by /i
MatchAtCI(s, i, p) ==
    /\ i + Len(p) - 1 <= Len(s)
    /\ \A j \in 1..Len(p) : LowerOf(s[i + j - 1]) = p[j]

\* String.prototype.includes
Includes(s, p) == \E i \in 1..(Len(s) + 1) : MatchAt(s, i, p)

\* s from position i to its end
From(s, i) == SubSeq(s, i, Len(s))

\* the end (exclusive) of the run of \S characters that starts at i
NonSpaceEnd(s, i) ==
    CHOOSE j \in i..(Len(s) + 1) :
        /\ \A m \in i..(j - 1) : ~IsSpace(s[m])
        /\ (j = Len(s) + 1 \/ IsSpace(s[j]))

\* the end (exclusive) of the run of \s characters that starts at i
SpaceEnd(s, i) ==
    CHOOSE j \in i..(Len(s) + 1) :
        /\ \A m \in i..(j - 1) : IsSpace(s[m])
        /\ (j = Len(s) + 1 \/ ~IsSpace(s[j]))

\* the end (exclusive) of the run of [^&\s] characters that starts at i
ValueEnd(s, i) ==
    CHOOSE j \in i..(Len(s) + 1) :
        /\ \A m \in i..(j - 1) : ~IsSpace(s[m]) /\ s[m] # "&"
        /\ (j = Len(s) + 1 \/ IsSpace(s[j]) \/ s[j] = "&")

\* Number.prototype.toString for a natural number
RECURSIVE DecStr(_)
DecStr(n) ==
    IF n < 10 THEN <<DigitChars[n + 1]>>
    ELSE DecStr(n \div 10) \o <<DigitChars[(n % 10) + 1]>>

---------------------------------------------------------------------------
(* redactError, src/src/ai-client.ts:22-53 *)

REDACTED == <<"[","R","E","D","A","C","T","E","D","]">>
QUERY_REDACTED == <<"?","[","Q","U","E","R","Y","_","R","E","D","A","C","T","E","D","]">>
AuthorizationRedacted ==
    <<"A","u","t","h","o","r","i","z","a","t","i","o","n",":"," ">> \o REDACTED
GoogKeyRedacted ==
    <<"x","-","g","o","o","g","-","a","p","i","-","k","e","y",":"," ">> \o REDACTED
ApiKeyRedacted == <<"x","-","a","p","i","-","k","e","y",":"," ">> \o REDACTED

\* the alternation (key|api_key|apikey|token|access_token), in its order
ParamNames ==
    << <<"k","e","y">>,
       <<"a","p","i","_","k","e","y">>,
       <<"a","p","i","k","e","y">>,
       <<"t","o","k","e","n">>,
       <<"a","c","c","e","s","s","_","t","o","k","e","n">> >>

\* safe.replaceAll(apiKey, "[REDACTED]"): every occurrence, left to right,
\* none overlapping a replaced one
RECURSIVE ReplaceAllFrom(_, _, _, _)
ReplaceAllFrom(s, i, k, r) ==
    IF i > Len(s) THEN <<>>
    ELSE IF MatchAt(s, i, k) THEN r \o ReplaceAllFrom(s, i + Len(k), k, r)
    ELSE <<s[i]>> \o ReplaceAllFrom(s, i + 1, k, r)

ReplaceAll(s, k, r) == ReplaceAllFrom(s, 1, k, r)

\* /[?&](key|api_key|apikey|token|access_token)=[^&\s]*/gi at position i:
\* the parameter name matched there, or 0
ParamAt(s, i) ==
    IF i <= Len(s) /\ s[i] \in {"?", "&"}
       /\ \E n \in 1..Len(ParamNames) :
             MatchAtCI(s, i + 1, ParamNames[n] \o <<"=">>)
    THEN CHOOSE n \in 1..Len(ParamNames) :
             MatchAtCI(s, i + 1, ParamNames[n] \o <<"=">>)
    ELSE 0

\* .replace(that pattern, "?$1=[REDACTED]")
RECURSIVE RedactParamsFrom(_, _)
RedactParamsFrom(s, i) ==
    IF i > Len(s) THEN <<>>
    ELSE IF ParamAt(s, i) # 0
    THEN LET n == Len(ParamNames[ParamAt(s, i)])
             e == ValueEnd(s, i + 1 + n + 1)
         IN  <<"?">> \o SubSeq(s, i + 1, i + n) \o <<"=">> \o REDACTED
                 \o RedactParamsFrom(s, e)
    ELSE <<s[i]>> \o RedactParamsFrom(s, i + 1)

RedactParams(s) == RedactParamsFrom(s, 1)

\* /<name>\s*\S+/gi at position i, for a header name: the end (exclusive) of
\* the match, or 0
HeaderEnd(s, i, name) ==
    IF MatchAtCI(s, i, name)
    THEN LET j == SpaceEnd(s, i + Len(name))
         IN  IF j > Len(s) THEN 0 ELSE NonSpaceEnd(s, j)
    ELSE 0

\* /Authorization:\s*(Bearer\s+)?\S+/gi at position i: the end (exclusive)
\* of the match, or 0
AuthorizationEnd(s, i) ==
    LET name == <<"a","u","t","h","o","r","i","z","a","t","i","o","n",":">>
        bearer == <<"b","e","a","r","e","r">>
    IN  IF MatchAtCI(s, i, name)
        THEN LET j == SpaceEnd(s, i + Len(name))
             IN  IF j > Len(s) THEN 0
                 ELSE IF /\ MatchAtCI(s, j, bearer)
                         /\ j + Len(bearer) <= Len(s)
                         /\ IsSpace(s[j + Len(bearer)])
                         /\ SpaceEnd(s, j + Len(bearer)) <= Len(s)
                      THEN NonSpaceEnd(s, SpaceEnd(s, j + Len(bearer)))
                      ELSE NonSpaceEnd(s, j)
        ELSE 0

RECURSIVE RedactAuthorizationFrom(_, _)
RedactAuthorizationFrom(s, i) ==
    IF i > Len(s) THEN <<>>
    ELSE IF AuthorizationEnd(s, i) # 0
    THEN AuthorizationRedacted \o RedactAuthorizationFrom(s, AuthorizationEnd(s, i))
    ELSE <<s[i]>> \o RedactAuthorizationFrom(s, i + 1)

RedactAuthorization(s) == RedactAuthorizationFrom(s, 1)

RECURSIVE RedactHeaderFrom(_, _, _, _)
RedactHeaderFrom(s, i, name, r) ==
    IF i > Len(s) THEN <<>>
    ELSE IF HeaderEnd(s, i, name) # 0
    THEN r \o RedactHeaderFrom(s, HeaderEnd(s, i, name), name, r)
    ELSE <<s[i]>> \o RedactHeaderFrom(s, i + 1, name, r)

RedactGoogKey(s) ==
    RedactHeaderFrom(s, 1,
        <<"x","-","g","o","o","g","-","a","p","i","-","k","e","y",":">>,
        GoogKeyRedacted)

RedactApiKeyHeader(s) ==
    RedactHeaderFrom(s, 1, <<"x","-","a","p","i","-","k","e","y",":">>,
        ApiKeyRedacted)

\* the position of the first c in s, or 0
IndexOf(s, c) ==
    IF \E i \in 1..Len(s) : s[i] = c
    THEN CHOOSE i \in 1..Len(s) : s[i] = c /\ \A m \in 1..(i - 1) : s[m] # c
    ELSE 0

\* the position of the last c in s, or 0
LastIndexOf(s, c) ==
    IF \E i \in 1..Len(s) : s[i] = c
    THEN CHOOSE i \in 1..Len(s) : s[i] = c /\ \A m \in (i + 1)..Len(s) : s[m] # c
    ELSE 0

\* the position of the first character of s that is in the set cs, or Len(s)+1
FirstOf(s, cs) ==
    CHOOSE j \in 1..(Len(s) + 1) :
        /\ \A m \in 1..(j - 1) : s[m] \notin cs
        /\ (j = Len(s) + 1 \/ s[j] \in cs)

\* new URL(url) for an http(s) URL: the scheme, the authority (up to the
\* first of / \ ? #), the host in lower case without userinfo, the port, and
\* the path up to ? or #.  ok is FALSE where the parser throws (no host, a
\* forbidden host character, a port that is not a number).  Dot segments,
\* percent-encoding, numeric hosts and default ports do not occur in the
\* modelled texts.
UrlParts(url) ==
    LET schemeLen == IF MatchAt(url, 1, <<"h","t","t","p","s",":","/","/">>)
                     THEN 8 ELSE 7
        rest == From(url, schemeLen + 1)
        aEnd == FirstOf(rest, {"/", "\\", "?", "#"})
        authority == SubSeq(rest, 1, aEnd - 1)
        at == LastIndexOf(authority, "@")
        hostport == From(authority, at + 1)
        colon == LastIndexOf(hostport, ":")
        host == IF colon = 0 THEN hostport ELSE SubSeq(hostport, 1, colon - 1)
        port == IF colon = 0 THEN <<>> ELSE From(hostport, colon + 1)
        afterAuth == From(rest, aEnd)
        pEnd == FirstOf(afterAuth, {"?", "#"})
        path == SubSeq(afterAuth, 1, pEnd - 1)
    IN  [ok |-> /\ host # <<>>
                /\ \A i \in 1..Len(host) :
                      host[i] \notin {"[", "]", "<", ">", "^", "|", "%", ":", " "}
                /\ \A i \in 1..Len(port) : IsDigit(port[i]),
         origin |-> SubSeq(url, 1, schemeLen) \o ToLowerCase(host)
                       \o (IF port = <<>> THEN <<>> ELSE <<":">> \o port),
         pathname |-> IF path = <<>> THEN <<"/">> ELSE path]

\* the replacer of the URL fallback: origin + pathname + "?[QUERY_REDACTED]",
\* or, when new URL throws, url.replace(/\?.*/, "?[QUERY_REDACTED]")
RedactUrl(url) ==
    LET u == UrlParts(url)
    IN  IF u.ok THEN u.origin \o u.pathname \o QUERY_REDACTED
        ELSE SubSeq(url, 1, IndexOf(url, "?") - 1) \o QUERY_REDACTED

\* /https?:\/\/[^\s]*\?[^\s]*/g at position i: the end (exclusive) of the
\* match, or 0
UrlEnd(s, i) ==
    LET schemeLen == IF MatchAt(s, i, <<"h","t","t","p","s",":","/","/">>) THEN 8
                     ELSE IF MatchAt(s, i, <<"h","t","t","p",":","/","/">>) THEN 7
                     ELSE 0
    IN  IF schemeLen = 0 THEN 0
        ELSE LET e == NonSpaceEnd(s, i + schemeLen)
             IN  IF \E m \in (i + schemeLen)..(e - 1) : s[m] = "?" THEN e ELSE 0

RECURSIVE RedactUrlsFrom(_, _)
RedactUrlsFrom(s, i) ==
    IF i > Len(s) THEN <<>>
    ELSE IF UrlEnd(s, i) # 0
    THEN RedactUrl(SubSeq(s, i, UrlEnd(s, i) - 1)) \o RedactUrlsFrom(s, UrlEnd(s, i))
    ELSE <<s[i]>> \o RedactUrlsFrom(s, i + 1)

RedactUrls(s) == RedactUrlsFrom(s, 1)

\* the literal replacement of the known secret, when it is longer than 4
RedactKnownKey(error, apiKey) ==
    IF apiKey # <<>> /\ Len(apiKey) > 4
    THEN ReplaceAll(error, apiKey, REDACTED)
    ELSE error

redactError(error, apiKey) ==
    RedactUrls(
        RedactApiKeyHeader(
            RedactGoogKey(
                RedactAuthorization(
                    RedactParams(
                        RedactKnownKey(error, apiKey))))))

---------------------------------------------------------------------------
(* JSON values and results *)

JsUndef == [t |-> "undefined"]
JsNull == [t |-> "null"]
JsStr(s) == [t |-> "string", v |-> s]
JsNum(n) == [t |-> "number", v |-> n]
JsObj(fields) == [t |-> "object", v |-> fields]
JsArr(items) == [t |-> "array", v |-> items]

\* ToBoolean, as used by !x, x ? a : b, x || y and if (x)
Truthy(x) ==
    CASE x.t \in {"undefined", "null"} -> FALSE
      [] x.t = "string" -> x.v # <<>>
      [] x.t = "number" -> x.v # 0
      [] OTHER -> TRUE

ObjectObject == <<"[","o","b","j","e","c","t"," ","O","b","j","e","c","t","]">>

\* ${x} in a template literal
ToStr(x) ==
    CASE x.t = "string" -> x.v
      [] x.t = "number" -> DecStr(x.v)
      [] x.t = "undefined" -> <<"u","n","d","e","f","i","n","e","d">>
      [] x.t = "null" -> <<"n","u","l","l">>
      [] OTHER -> ObjectObject

\* { ok: true, text } and { ok: false, error }
Ok(text) == [ok |-> TRUE, text |-> text]
Fail(error) == [ok |-> FALSE, error |-> error]

\* how a function body ends: a returned value or a thrown Error
Return(v) == [kind |-> "return", value |-> v]
Throw(name, message) == [kind |-> "throw", name |-> name, message |-> message]

---------------------------------------------------------------------------
(* Settings, src/src/types.ts *)

GEMINI == <<"g","e","m","i","n","i">>
OPENAI == <<"o","p","e","n","a","i">>
ANTHROPIC == <<"a","n","t","h","r","o","p","i","c">>
OLLAMA == <<"o","l","l","a","m","a">>
\* a provider id outside the closed set (a hand-edited data.json)
BOGUS == <<"b","o","g","u","s">>

KnownProviders == {GEMINI, OPENAI, ANTHROPIC, OLLAMA}

KeyLong == <<"s","k","-","1","2">>
KeyShort == <<"s","k","-","1">>
KeyBracket == <<"a","b","c","d","[">>

\* s.providers[s.provider]?.apiKey || ""
getApiKey(s) ==
    IF s.provider \in DOMAIN s.providers /\ s.providers[s.provider].apiKey # <<>>
    THEN s.providers[s.provider].apiKey
    ELSE <<>>

NoProviders == [p \in {} |-> [apiKey |-> <<>>, model |-> <<>>]]

\* the settings a call starts from: each provider id, with no entry in the
\* per-provider map or with an entry that holds a key
CallSettings ==
    {[provider |-> p, providers |-> NoProviders] :
        p \in KnownProviders \cup {BOGUS}}
    \cup
    {[provider |-> p,
      providers |-> [q \in {p} |-> [apiKey |-> KeyLong, model |-> <<>>]]] :
        p \in KnownProviders \cup {BOGUS}}

---------------------------------------------------------------------------
(* The settings resolver, src/src/types.ts and the plugin class *)

\* PROVIDERS: id, default model and whether an API key is needed
PROVIDERS ==
    << [id |-> GEMINI, defaultModel |-> <<"g","e","m","i","n","i","-","2",".","5","-","f","l","a","s","h">>,
        needsApiKey |-> TRUE],
       [id |-> OPENAI, defaultModel |-> <<"g","p","t","-","4","o","-","m","i","n","i">>,
        needsApiKey |-> TRUE],
       [id |-> ANTHROPIC,
        defaultModel |-> <<"c","l","a","u","d","e","-","s","o","n","n","e","t","-","4","-","2","0","2","5","0","5","1","4">>,
        needsApiKey |-> TRUE],
       [id |-> OLLAMA, defaultModel |-> <<"g","e","m","m","a","3",":","1","2","b">>,
        needsApiKey |-> FALSE] >>

\* PROVIDERS.find((p) => p.id === id), as an index; 0 is undefined
FindProvider(id) ==
    IF \E i \in DOMAIN PROVIDERS : PROVIDERS[i].id = id
    THEN CHOOSE i \in DOMAIN PROVIDERS :
            /\ PROVIDERS[i].id = id
            /\ \A j \in 1..(i - 1) : PROVIDERS[j].id # id
    ELSE 0

\* isConfigured with every provider needing a key
isConfiguredKeyAlways(s) ==
    /\ s.enabled
    /\ FindProvider(s.provider) # 0
    /\ getApiKey(s) # <<>>

\* MuseWeaverAiBridgePlugin.isConfigured, on this.settings = s
isConfigured(s) ==
    IF ~s.enabled THEN FALSE
    ELSE IF FindProvider(s.provider) = 0 THEN FALSE
    ELSE IF PROVIDERS[FindProvider(s.provider)].needsApiKey /\ getApiKey(s) = <<>>
    THEN FALSE
    ELSE TRUE

\* s.providers[s.provider]?.model
StoredModel(s) ==
    IF s.provider \in DOMAIN s.providers
    THEN s.providers[s.provider].model
    ELSE <<>>

\* provider?.defaultModel || ""
DefaultModel(id) ==
    IF FindProvider(id) = 0 THEN <<>> ELSE PROVIDERS[FindProvider(id)].defaultModel

\* getModel with ?? in the place of the first ||
getModelNullish(s) ==
    IF s.provider \in DOMAIN s.providers THEN StoredModel(s)
    ELSE DefaultModel(s.provider)

\* getModel
getModel(s) ==
    IF StoredModel(s) # <<>> THEN StoredModel(s) ELSE DefaultModel(s.provider)

\* obj[f] = v and delete obj[f], on an object held as a function of its keys
Put(obj, f, v) == [g \in DOMAIN obj \cup {f} |-> IF g = f THEN v ELSE obj[g]]
Delete(obj, f) == [g \in DOMAIN obj \ {f} |-> obj[g]]

\* { apiKey: "", model: "" }
EmptyEntry == [apiKey |-> <<>>, model |-> <<>>]

\* DEFAULT_PERSONA_SETTINGS and DEFAULT_AI_SETTINGS as written in the source
MUSE == <<"M","u","s","e">>
DefaultSelected == <<"d","e","f","a","u","l","t">>
CustomSelected == <<"c","u","s","t","o","m">>
DEFAULT_PERSONA_CUSTOM ==
    [id |-> CustomSelected, name |-> MUSE, icon |-> <<"m","o","o","n">>, tone |-> <<>>,
     firstPerson |-> <<>>, speechStyle |-> <<>>]
DEFAULT_PERSONA_SETTINGS ==
    [selected |-> DefaultSelected, custom |-> DEFAULT_PERSONA_CUSTOM]
DefaultUrl == <<"h","t","t","p",":","/","/","l","o","c","a","l","h","o","s","t",":","1","1","4","3","4">>
DEFAULT_AI_SETTINGS ==
    [enabled |-> FALSE, provider |-> GEMINI, providers |-> NoProviders,
     ollamaUrl |-> DefaultUrl, persona |-> DEFAULT_PERSONA_SETTINGS]

\* s.providers[id]?.[field], "" when there is no entry
EntryField(s, id, field) ==
    IF id \in DOMAIN s.providers THEN s.providers[id][field] ELSE <<>>

\* if (!s.providers[id]) s.providers[id] = {apiKey: "", model: ""};
\* s.providers[id][field] = v
SetEntryField(s, id, field, v) ==
    LET entry == IF id \in DOMAIN s.providers THEN s.providers[id] ELSE EmptyEntry
    IN  [s EXCEPT !.providers = Put(s.providers, id, [entry EXCEPT ![field] = v])]

\* migrateSettings, lines 83 to 92: the legacy apiKey and model
MigrateFlat(s0) ==
    LET s1 == IF "providers" \in DOMAIN s0 THEN s0 ELSE Put(s0, "providers", NoProviders)
        s2 == IF /\ "apiKey" \in DOMAIN s1
                 /\ s1.apiKey # <<>>
                 /\ EntryField(s1, s1.provider, "apiKey") = <<>>
              THEN SetEntryField(s1, s1.provider, "apiKey", s1.apiKey)
              ELSE s1
    IN  IF /\ "model" \in DOMAIN s2
           /\ s2.model # <<>>
           /\ EntryField(s2, s2.provider, "model") = <<>>
        THEN SetEntryField(s2, s2.provider, "model", s2.model)
        ELSE s2

\* migrateSettings, lines 94 to 99, copying over a stored model
MigrateOllamaOverwrite(s) ==
    IF "ollamaModel" \in DOMAIN s /\ Truthy(s.ollamaModel) /\ s.ollamaModel.t = "string"
    THEN Delete(SetEntryField(s, OLLAMA, "model", s.ollamaModel.v), "ollamaModel")
    ELSE s

\* migrateSettings, lines 94 to 99: the legacy ollamaModel
MigrateOllama(s) ==
    IF "ollamaModel" \in DOMAIN s /\ Truthy(s.ollamaModel) /\ s.ollamaModel.t = "string"
    THEN Delete(IF EntryField(s, OLLAMA, "model") = <<>>
                THEN SetEntryField(s, OLLAMA, "model", s.ollamaModel.v)
                ELSE s, "ollamaModel")
    ELSE s

\* migrateSettings, lines 101 to 106: persona and persona.custom exist
MigratePersona(s) ==
    LET s1 == IF "persona" \in DOMAIN s THEN s
              ELSE Put(s, "persona", DEFAULT_PERSONA_SETTINGS)
    IN  IF "custom" \in DOMAIN s1.persona THEN s1
        ELSE [s1 EXCEPT !.persona = Put(s1.persona, "custom", DEFAULT_PERSONA_CUSTOM)]

\* migrateSettings returning as soon as it has created s.providers
migrateSettingsEarlyReturn(s) ==
    IF "providers" \notin DOMAIN s THEN Put(s, "providers", NoProviders)
    ELSE Delete(Delete(MigratePersona(MigrateOllama(MigrateFlat(s))), "apiKey"), "model")

\* migrateSettings
migrateSettings(s) ==
    Delete(Delete(MigratePersona(MigrateOllama(MigrateFlat(s))), "apiKey"), "model")

---------------------------------------------------------------------------
(* Ollama model diagnostics, src/src/types.ts *)

\* the rating marks of the table: double circle, circle, triangle; and "?"
RatingBest == "(double circle)"
RatingGood == "(circle)"
RatingFair == "(triangle)"
RatingUnknown == "?"

\* JAPANESE_RATINGS in the order of its keys; the family names the entry
JAPANESE_RATINGS ==
    << [family |-> <<"q","w","e","n","3">>,
        rating |-> RatingBest, recommended |-> TRUE],
       [family |-> <<"q","w","e","n","2",".","5">>,
        rating |-> RatingBest, recommended |-> TRUE],
       [family |-> <<"q","w","e","n","2">>,
        rating |-> RatingBest, recommended |-> TRUE],
       [family |-> <<"g","e","m","m","a","3">>,
        rating |-> RatingGood, recommended |-> FALSE],
       [family |-> <<"g","e","m","m","a","2">>,
        rating |-> RatingGood, recommended |-> FALSE],
       [family |-> <<"c","o","m","m","a","n","d","-","r">>,
        rating |-> RatingGood, recommended |-> FALSE],
       [family |-> <<"l","l","a","m","a","3">>,
        rating |-> RatingFair, recommended |-> FALSE],
       [family |-> <<"l","l","a","m","a","3",".","1">>,
        rating |-> RatingFair, recommended |-> FALSE],
       [family |-> <<"l","l","a","m","a","3",".","2">>,
        rating |-> RatingFair, recommended |-> FALSE],
       [family |-> <<"p","h","i","-","3">>,
        rating |-> RatingFair, recommended |-> FALSE],
       [family |-> <<"p","h","i","-","4">>,
        rating |-> RatingFair, recommended |-> FALSE],
       [family |-> <<"m","i","s","t","r","a","l">>,
        rating |-> RatingFair, recommended |-> FALSE] >>

\* the place of x in the output of a stable sort by descending length: after
\* every element that is at least as long
RECURSIVE InsertByLength(_, _)
InsertByLength(sorted, x) ==
    IF sorted = <<>> THEN <<x>>
    ELSE IF Len(Head(sorted).family) >= Len(x.family)
    THEN <<Head(sorted)>> \o InsertByLength(Tail(sorted), x)
    ELSE <<x>> \o sorted

\* Object.keys(JAPANESE_RATINGS).sort((a, b) => b.length - a.length)
RECURSIVE SortByLength(_)
SortByLength(entries) ==
    IF entries = <<>> THEN <<>>
    ELSE InsertByLength(SortByLength(SubSeq(entries, 1, Len(entries) - 1)),
                        entries[Len(entries)])

\* String.prototype.startsWith
StartsWith(s, p) == MatchAt(s, 1, p)

\* { rating: "?", recommended: false }
UnknownRating == [family |-> <<>>, rating |-> RatingUnknown, recommended |-> FALSE]

\* for (const family of sorted) if (modelName.startsWith(family)) return ...
FirstMatch(sorted, modelName) ==
    IF \E i \in DOMAIN sorted : StartsWith(modelName, sorted[i].family)
    THEN sorted[CHOOSE i \in DOMAIN sorted :
                    /\ StartsWith(modelName, sorted[i].family)
                    /\ \A j \in 1..(i - 1) : ~StartsWith(modelName, sorted[j].family)]
    ELSE UnknownRating

\* getJapaneseRating without the sort of the keys
getJapaneseRatingUnsorted(modelName) == FirstMatch(JAPANESE_RATINGS, modelName)

\* getJapaneseRating
getJapaneseRating(modelName) == FirstMatch(SortByLength(JAPANESE_RATINGS), modelName)

\* \w
IsWordChar(c) ==
    \/ IsDigit(c)
    \/ c = "_"
    \/ \E i \in 1..26 : LowerLetters[i] = c \/ UpperLetters[i] = c

\* \b before position i of s
WordBoundaryAt(s, i) ==
    (i > 1 /\ IsWordChar(s[i - 1])) # (i <= Len(s) /\ IsWordChar(s[i]))

\* /\b(alt1|alt2|...)B/i.test(s)
TestSize(s, alts) ==
    \E i \in 1..Len(s) : \E a \in alts :
        WordBoundaryAt(s, i) /\ MatchAtCI(s, i, a \o <<"b">>)

\* [1-3], [78], 1[0-4], 2[0-9]|3[0-4], 70|72
Digits(lo, hi) == {<<DigitChars[d + 1]>> : d \in lo..hi}
Small == Digits(1, 3)
SevenEight == Digits(7, 8)
TenToFourteen == {<<"1">> \o d : d \in Digits(0, 4)}
TwentyToThirtyFour ==
    {<<"2">> \o d : d \in Digits(0, 9)} \cup {<<"3">> \o d : d \in Digits(0, 4)}
SeventyOrSeventyTwo == {<<"7","0">>, <<"7","2">>}

C8k == <<"8","k">>
C16k == <<"1","6","k">>
C32k == <<"3","2","k">>
C128k == <<"1","2","8","k">>
NoteSmall == <<"o","l","l","a","m","a",".","d","i","a","g","N","o","t","e","S","m","a","l","l">>
Note8B == <<"o","l","l","a","m","a",".","d","i","a","g","N","o","t","e","8","B">>
Note14B == <<"o","l","l","a","m","a",".","d","i","a","g","N","o","t","e","1","4","B">>
NoteMid == <<"o","l","l","a","m","a",".","d","i","a","g","N","o","t","e","M","i","d">>
NoteLarge == <<"o","l","l","a","m","a",".","d","i","a","g","N","o","t","e","L","a","r","g","e">>

\* the if / else-if chain of diagnoseModel
SizeClass(paramSize) ==
    IF TestSize(paramSize, Small)
    THEN [recommendedContext |-> C128k, note |-> JsStr(NoteSmall)]
    ELSE IF TestSize(paramSize, SevenEight)
    THEN [recommendedContext |-> C32k, note |-> JsStr(Note8B)]
    ELSE IF TestSize(paramSize, TenToFourteen)
    THEN [recommendedContext |-> C32k, note |-> JsStr(Note14B)]
    ELSE IF TestSize(paramSize, TwentyToThirtyFour)
    THEN [recommendedContext |-> C16k, note |-> JsStr(NoteMid)]
    ELSE IF TestSize(paramSize, SeventyOrSeventyTwo)
    THEN [recommendedContext |-> C8k, note |-> JsStr(NoteLarge)]
    ELSE [recommendedContext |-> C8k, note |-> JsUndef]

\* diagnoseModel
diagnoseModel(modelName, paramSize) ==
    [parameterSize |-> paramSize,
     japaneseRating |-> getJapaneseRating(modelName).rating,
     recommendedContext |-> SizeClass(paramSize).recommendedContext,
     note |-> SizeClass(paramSize).note]

\* the optional fields of a settings object: each absent or one of vals
Optional(f, vals) ==
    {[g \in {} |-> <<>>]} \cup {[g \in {f} |-> v] : v \in vals}

\* two objects with disjoint keys merged
Merge(a, b) == [g \in DOMAIN a \cup DOMAIN b |-> IF g \in DOMAIN a THEN a[g] ELSE b[g]]

---------------------------------------------------------------------------
(* The settings tab, src/src/settings.ts, and loadSettings *)

\* Objects are shared by reference: DEFAULT_AI_SETTINGS.providers and
\* DEFAULT_PERSONA_SETTINGS live in heap.dflt, every object that has been
\* plugin.settings lives in heap.objs, and a settings object either refers
\* to the default objects or owns its providers map and its persona.

\* the most renderOllamaModelSelector calls started
MaxListings == 2
\* the most handler events of the tab
MaxEvents == 3

\* the module-level default objects as the source writes them
PristineDefaults ==
    [providers |-> NoProviders, persona |-> DEFAULT_PERSONA_SETTINGS]

\* s.providers and s.persona of settings object i
ProvidersOf(h, i) ==
    IF h.objs[i].providersRef = "default" THEN h.dflt.providers
    ELSE h.objs[i].providers
PersonaOf(h, i) ==
    IF h.objs[i].personaRef = "default" THEN h.dflt.persona
    ELSE h.objs[i].persona

\* s.providers = map and s.persona = p, written through the reference
WithProviders(h, i, map) ==
    IF h.objs[i].providersRef = "default"
    THEN [h EXCEPT !.dflt.providers = map]
    ELSE [h EXCEPT !.objs[i].providers = map]
WithPersona(h, i, p) ==
    IF h.objs[i].personaRef = "default"
    THEN [h EXCEPT !.dflt.persona = p]
    ELSE [h EXCEPT !.objs[i].persona = p]

\* JSON.stringify(settings object i): what saveData writes
Snapshot(h, i) ==
    [enabled |-> h.objs[i].enabled,
     provider |-> h.objs[i].provider,
     ollamaUrl |-> h.objs[i].ollamaUrl,
     providers |-> ProvidersOf(h, i),
     persona |-> PersonaOf(h, i)]

\* a fresh settings object that owns copies of providers and persona
OwnObject(v) ==
    [enabled |-> v.enabled, provider |-> v.provider, ollamaUrl |-> v.ollamaUrl,
     providersRef |-> "own", providers |-> v.providers,
     personaRef |-> "own", persona |-> v.persona]

\* Object.assign({}, DEFAULT_AI_SETTINGS, data) followed by migrateSettings:
\* a field data does not bring is the default's, objects by reference
Loaded(h, data) ==
    LET assigned ==
            Merge(data, [enabled |-> FALSE, provider |-> GEMINI,
                         providers |-> h.dflt.providers,
                         ollamaUrl |-> DefaultUrl,
                         persona |-> h.dflt.persona])
        v == migrateSettings(assigned)
        sharedProviders == "providers" \notin DOMAIN data
        sharedPersona == "persona" \notin DOMAIN data
    IN  [dflt |-> [providers |-> IF sharedProviders THEN v.providers
                                 ELSE h.dflt.providers,
                   persona |-> IF sharedPersona THEN v.persona
                               ELSE h.dflt.persona],
         objs |-> Append(h.objs,
                    [enabled |-> v.enabled, provider |-> v.provider,
                     ollamaUrl |-> v.ollamaUrl,
                     providersRef |-> IF sharedProviders THEN "default" ELSE "own",
                     providers |-> IF sharedProviders THEN NoProviders ELSE v.providers,
                     personaRef |-> IF sharedPersona THEN "default" ELSE "own",
                     persona |-> IF sharedPersona THEN DEFAULT_PERSONA_SETTINGS
                                 ELSE v.persona])]

\* ensureProvider(id): on this.plugin.settings, object c
ensureProvider(h, c, id) ==
    IF id \in DOMAIN ProvidersOf(h, c) THEN h
    ELSE WithProviders(h, c, Put(ProvidersOf(h, c), id, EmptyEntry))

\* s.providers[id][field] = v on object i; the entry must exist
WriteEntry(h, i, id, field, v) ==
    WithProviders(h, i,
        [ProvidersOf(h, i) EXCEPT ![id] = [@ EXCEPT ![field] = v]])

\* s.providers["ollama"]?.model || ""
OllamaModelOf(h, i) ==
    IF OLLAMA \in DOMAIN ProvidersOf(h, i)
    THEN ProvidersOf(h, i)[OLLAMA].model
    ELSE <<>>

\* the comparator of models.sort: recommended first (ja only), then by size
\* descending; a goes before b
SortsBefore(a, b, l) ==
    LET aRec == IF getJapaneseRating(a.name).recommended THEN 0 ELSE 1
        bRec == IF getJapaneseRating(b.name).recommended THEN 0 ELSE 1
    IN  IF l = "ja" /\ aRec # bRec THEN aRec < bRec
        ELSE b.size < a.size

\* x put into a sorted list, after the elements it does not sort before
RECURSIVE InsertModel(_, _, _)
InsertModel(sorted, x, l) ==
    IF sorted = <<>> THEN <<x>>
    ELSE IF SortsBefore(x, Head(sorted), l) THEN <<x>> \o sorted
    ELSE <<Head(sorted)>> \o InsertModel(Tail(sorted), x, l)

\* models.sort(...), a stable sort
RECURSIVE SortModels(_, _)
SortModels(models, l) ==
    IF models = <<>> THEN <<>>
    ELSE InsertModel(SortModels(SubSeq(models, 1, Len(models) - 1), l),
                     models[Len(models)], l)

\* the names of a list of models
NamesOf(models) == {models[i].name : i \in DOMAIN models}

\* renderOllamaModelSelector after the await: s and currentModel are what the
\* call captured before it, sorted is the sorted list; the heap afterwards,
\* whether the model was written (and saved), whether the write threw
Continuation(h, c, s, currentModel, sorted) ==
    LET effectiveModel ==
            IF sorted = <<>> THEN <<>>
            ELSE IF currentModel \in NamesOf(sorted) THEN currentModel
            ELSE sorted[1].name
        ensured == ensureProvider(h, c, OLLAMA)
    IN  IF effectiveModel = currentModel
        THEN [heap |-> h, wrote |-> FALSE, threw |-> FALSE]
        ELSE IF OLLAMA \notin DOMAIN ProvidersOf(ensured, s)
        THEN [heap |-> ensured, wrote |-> FALSE, threw |-> TRUE]
        ELSE [heap |-> WriteEntry(ensured, s, OLLAMA, "model", effectiveModel),
              wrote |-> TRUE, threw |-> FALSE]

---------------------------------------------------------------------------
(* The adapters, src/src/ai-client.ts *)

FETCH_TIMEOUT_MS == 30000
LIST_TIMEOUT_MS == 5000
SHOW_TIMEOUT_MS == 5000

RequestFailedStatus == <<"R","e","q","u","e","s","t"," ","f","a","i","l","e","d",","," ","s","t","a","t","u","s"," ">>
UnknownProvider == <<"U","n","k","n","o","w","n"," ","p","r","o","v","i","d","e","r",":"," ">>
EmptyGemini == <<"E","m","p","t","y"," ","r","e","s","p","o","n","s","e"," ","f","r","o","m"," ","G","e","m","i","n","i">>
EmptyOpenAi == <<"E","m","p","t","y"," ","r","e","s","p","o","n","s","e"," ","f","r","o","m"," ","O","p","e","n","A","I">>
EmptyAnthropic == <<"E","m","p","t","y"," ","r","e","s","p","o","n","s","e"," ","f","r","o","m"," ","A","n","t","h","r","o","p","i","c">>
EmptyOllama == <<"E","m","p","t","y"," ","r","e","s","p","o","n","s","e"," ","f","r","o","m"," ","O","l","l","a","m","a">>
BlockedOpen == <<" ","(","b","l","o","c","k","e","d",":"," ">>
SafetyDetail == <<" ","(","s","a","f","e","t","y"," ","f","i","l","t","e","r"," ","t","r","i","g","g","e","r","e","d",")">>
MaxTokensDetail == <<" ","(","o","u","t","p","u","t"," ","t","r","u","n","c","a","t","e","d",":"," ","m","a","x"," ","t","o","k","e","n","s"," ","r","e","a","c","h","e","d",")">>
RecitationDetail == <<" ","(","b","l","o","c","k","e","d",":"," ","r","e","c","i","t","a","t","i","o","n",")">>
FinishReasonOpen == <<" ","(","f","i","n","i","s","h","R","e","a","s","o","n",":"," ">>
RequestTimedOut == <<"R","e","q","u","e","s","t"," ","t","i","m","e","d"," ","o","u","t">>
UnknownError == <<"U","n","k","n","o","w","n"," ","e","r","r","o","r">>

\* what the runtime and the server supply
FailedToFetch == <<"F","a","i","l","e","d"," ","t","o"," ","f","e","t","c","h">>
ConnRefusedWithUrl == <<"c","o","n","n","e","c","t"," ","E","C","O","N","N","R","E","F","U","S","E","D"," ","h","t","t","p","s",":","/","/","H",".","i","o","/","p","?","k","e","y","=","s","k","-","1","2">>
JsonSyntaxError == <<"U","n","e","x","p","e","c","t","e","d"," ","t","o","k","e","n"," ","<"," ","i","n"," ","J","S","O","N"," ","a","t"," ","p","o","s","i","t","i","o","n"," ","0">>
FilterNotAFunction == <<"s","a","f","e","t","y","R","a","t","i","n","g","s",".","f","i","l","t","e","r"," ","i","s"," ","n","o","t"," ","a"," ","f","u","n","c","t","i","o","n">>
NullProbability == <<"C","a","n","n","o","t"," ","r","e","a","d"," ","p","r","o","p","e","r","t","i","e","s"," ","o","f"," ","n","u","l","l"," ","(","r","e","a","d","i","n","g"," ","'","p","r","o","b","a","b","i","l","i","t","y","'",")">>
FinishStop == <<"S","T","O","P">>
FinishSafety == <<"S","A","F","E","T","Y">>
FinishMaxTokens == <<"M","A","X","_","T","O","K","E","N","S">>
FinishRecitation == <<"R","E","C","I","T","A","T","I","O","N">>
FinishLanguage == <<"L","A","N","G","U","A","G","E">>
ReasonWithUrl == <<"s","e","e"," ","h","t","t","p","s",":","/","/","H",".","i","o","/","p","?","k","e","y","=","v","1">>
Hi == <<"h","i">>
Negligible == JsObj([probability |-> <<"N","E","G","L","I","G","I","B","L","E">>])
High == JsObj([probability |-> <<"H","I","G","H">>])
Qwen == <<"q","w","e","n","2",".","5",":","7","b">>
Gemma == <<"g","e","m","m","a","3",":","1","2","b">>

\* Response.ok
ResOkWide(status) == status >= 200 /\ status <= 399
ResOk(status) == status >= 200 /\ status <= 299

\* the timeoutMs each caller hands to fetchWithTimeout
Timeout(o) ==
    CASE o = "callAi" -> FETCH_TIMEOUT_MS
      [] o = "list" -> LIST_TIMEOUT_MS
      [] o = "show" -> SHOW_TIMEOUT_MS
      [] OTHER -> 0

\* the catch of fetchWithTimeout: an abort becomes Error("Request timed out")
FetchCatch(e) ==
    IF e.name = "AbortError" THEN Throw("Error", RequestTimedOut) ELSE e

\* return { ok: false, error: `Request failed, status ${res.status}` }
StatusFailure(status) == Return(Fail(RequestFailedStatus \o DecStr(status)))

\* safetyRatings.filter(r => r.probability !== ...) of callGemini: what it
\* throws, for a value that is no array or an array with a null entry
RatingsThrow(ratings) ==
    IF ~Truthy(ratings) THEN <<>>
    ELSE IF ratings.t # "array" THEN FilterNotAFunction
    ELSE IF \E i \in 1..Len(ratings.v) : ratings.v[i].t \in {"null", "undefined"}
    THEN NullProbability
    ELSE <<>>

\* the text after "Empty response from Gemini"
GeminiDetail(blockReason, finishReason) ==
    IF Truthy(blockReason) THEN BlockedOpen \o ToStr(blockReason) \o <<")">>
    ELSE IF finishReason = JsStr(FinishSafety) THEN SafetyDetail
    ELSE IF finishReason = JsStr(FinishMaxTokens) THEN MaxTokensDetail
    ELSE IF finishReason = JsStr(FinishRecitation) THEN RecitationDetail
    ELSE IF Truthy(finishReason) THEN FinishReasonOpen \o ToStr(finishReason) \o <<")">>
    ELSE <<>>

\* callGemini after res.json(): data.candidates[0] gives text, finishReason
\* and candidateRatings, data.promptFeedback gives blockReason and
\* promptRatings (JsUndef where the optional chain finds nothing)
GeminiBody(data) ==
    LET safetyRatings == IF Truthy(data.candidateRatings)
                         THEN data.candidateRatings ELSE data.promptRatings
    IN  IF RatingsThrow(safetyRatings) # <<>>
        THEN Throw("TypeError", RatingsThrow(safetyRatings))
        ELSE IF ~Truthy(data.text)
        THEN Return(Fail(EmptyGemini \o GeminiDetail(data.blockReason, data.finishReason)))
        ELSE Return(Ok(data.text))

\* callOpenAi, callAnthropic and callOllama after res.json(): content is
\* choices[0].message.content, content[0].text or message.content
PlainBody(data, emptyMessage) ==
    IF Truthy(data.content) THEN Return(Ok(data.content))
    ELSE Return(Fail(emptyMessage))

EmptyMessage(provider) ==
    CASE provider = OPENAI -> EmptyOpenAi
      [] provider = ANTHROPIC -> EmptyAnthropic
      [] OTHER -> EmptyOllama

\* the adapter the switch of callAi selects, "none" for the default case
NoAdapter == <<>>
AdapterOllamaDefault(provider) ==
    IF provider \in KnownProviders THEN provider ELSE OLLAMA
Adapter(provider) ==
    IF provider \in KnownProviders THEN provider ELSE NoAdapter

\* an adapter's code after a 2xx response whose body parsed to data
AdapterBody(provider, data) ==
    IF Adapter(provider) = GEMINI THEN GeminiBody(data)
    ELSE PlainBody(data, EmptyMessage(Adapter(provider)))

\* callAi's try/catch around the adapter: how its promise settles
CallAiCatchRethrow(outcome, apiKey) ==
    IF outcome.kind = "return"
    THEN [settled |-> "resolved", value |-> outcome.value]
    ELSE [settled |-> "rejected", value |-> Fail(outcome.message)]
CallAiCatch(outcome, apiKey) ==
    IF outcome.kind = "return"
    THEN [settled |-> "resolved", value |-> outcome.value]
    ELSE [settled |-> "resolved", value |-> Fail(redactError(outcome.message, apiKey))]

\* listOllamaModels after res.json()
ListBody(data) ==
    IF data.models.t = "array" THEN Return(data.models) ELSE Return(JsArr(<<>>))

\* showOllamaModel after res.json(): data?.details ?? null
ShowBody(data) ==
    IF data.details.t \in {"undefined", "null"} THEN Return(JsNull)
    ELSE Return(data.details)

\* the try/catch of listOllamaModels and showOllamaModel, and their
\* if (!res.ok) return
LookupCatchRethrow(o, outcome) ==
    IF outcome.kind = "return"
    THEN [settled |-> "resolved", value |-> outcome.value]
    ELSE [settled |-> "rejected", value |-> JsUndef]
LookupCatch(o, outcome) ==
    IF outcome.kind = "return"
    THEN [settled |-> "resolved", value |-> outcome.value]
    ELSE [settled |-> "resolved",
          value |-> IF o = "list" THEN JsArr(<<>>) ELSE JsNull]

LookupStatusFailure(o) == Return(IF o = "list" THEN JsArr(<<>>) ELSE JsNull)

\* how the promise of operation o settles on an outcome of its body
Settle(o, outcome, apiKey) ==
    IF o = "callAi" THEN CallAiCatch(outcome, apiKey) ELSE LookupCatch(o, outcome)

\* the failure text as built, before the catch of callAi redacts it
RawOf(outcome) ==
    IF outcome.kind = "throw" THEN outcome.message
    ELSE IF "ok" \in DOMAIN outcome.value /\ ~outcome.value.ok
    THEN outcome.value.error
    ELSE <<>>

---------------------------------------------------------------------------
(* What the network can do *)

\* the statuses a response carries
Statuses == {200, 299, 300, 401, 404, 500}

\* what fetch rejects with when no response arrives
NetErrors == {Throw("TypeError", FailedToFetch), Throw("TypeError", ConnRefusedWithUrl)}

\* what controller.abort() makes fetch reject with
AbortError ==
    Throw("AbortError", <<"s","i","g","n","a","l"," ","i","s"," ","a","b","o","r","t","e","d">>)

\* what res.json() rejects with: a body that is no JSON, a connection lost
BodyErrors == {Throw("SyntaxError", JsonSyntaxError), Throw("TypeError", FailedToFetch)}

GeminiBodies ==
    [text : {JsUndef, JsStr(<<>>), JsStr(Hi), JsNum(42)},
     finishReason : {JsUndef, JsStr(FinishStop), JsStr(FinishSafety),
                     JsStr(FinishMaxTokens), JsStr(FinishRecitation),
                     JsStr(FinishLanguage)},
     blockReason : {JsUndef, JsStr(FinishSafety), JsStr(ReasonWithUrl)},
     candidateRatings : {JsUndef, JsArr(<<>>), JsArr(<<Negligible, High>>),
                         JsArr(<<JsNull>>), High},
     promptRatings : {JsUndef, High}]

PlainBodies ==
    [content : {JsUndef, JsNull, JsStr(<<>>), JsStr(Hi), JsNum(0), JsNum(42),
                JsObj([type |-> <<"t","e","x","t">>])}]

ModelEntry(name, size) == JsObj([name |-> name, size |-> size])

ListBodies ==
    [models : {JsUndef, JsStr(Hi), JsArr(<<>>), JsArr(<<ModelEntry(Gemma, 8)>>),
               JsArr(<<ModelEntry(Gemma, 8), ModelEntry(Qwen, 4)>>)}]

ShowBodies ==
    [details : {JsUndef, JsNull, JsStr(Hi),
                JsObj([parameter_size |-> <<"7",".","6","B">>])}]

\* the parsed bodies operation o can receive
Bodies(o, provider) ==
    CASE o = "list" -> ListBodies
      [] o = "show" -> ShowBodies
      [] o = "callAi" /\ provider = GEMINI -> GeminiBodies
      [] OTHER -> PlainBodies

\* the code of operation o after a parsed body
BodyOutcome(o, provider, data) ==
    CASE o = "list" -> ListBody(data)
      [] o = "show" -> ShowBody(data)
      [] OTHER -> AdapterBody(provider, data)

---------------------------------------------------------------------------
(* One invocation of callAi, listOllamaModels or showOllamaModel *)

Min(a, b) == IF a <= b THEN a ELSE b

\* the state of the redaction model while another model is explored
RedactIdle ==
    /\ rx = <<>>
    /\ rk = <<>>
    /\ rout1 = <<>>
    /\ rout2 = <<>>
    /\ rpc = "off"

\* the state of the resolver model while another model is explored
ResolveIdle ==
    /\ ps = [enabled |-> FALSE]
    /\ pm1 = [enabled |-> FALSE]
    /\ pm2 = [enabled |-> FALSE]
    /\ pconf = FALSE
    /\ pmodel = <<>>
    /\ ppc = "off"

\* the state of the diagnostics model while another model is explored
DiagIdle ==
    /\ dname = <<>>
    /\ dsize = <<>>
    /\ drate = UnknownRating
    /\ ddiag = [parameterSize |-> <<>>]
    /\ dpc = "off"

\* the state of the tab model while another model is explored
TabIdle ==
    /\ heap = [dflt |-> PristineDefaults, objs |-> <<>>]
    /\ cur = 0
    /\ tab = [open |-> FALSE, attached |-> 0, dropdown |-> {}, last |-> "off"]
    /\ listings = <<>>
    /\ saved = [g \in {} |-> <<>>]
    /\ lang = "en"
    /\ events = 0

Init ==
    /\ settings \in CallSettings
    /\ op = "none"
    /\ phase = "idle"
    /\ now = 0
    /\ startedAt = 0
    /\ timerArmed = FALSE
    /\ requests = 0
    /\ bodyRead = FALSE
    /\ response = [kind |-> "none"]
    /\ settled = "pending"
    /\ result = [t |-> "none"]
    /\ rawError = <<>>
    /\ shown = <<>>
    /\ RedactIdle
    /\ ResolveIdle
    /\ DiagIdle
    /\ TabIdle

\* the promise of operation o settles on outcome
Finish(o, outcome) ==
    \E s \in {Settle(o, outcome, getApiKey(settings))} :
        /\ settled' = s.settled
        /\ result' = s.value
        /\ rawError' = RawOf(outcome)
        /\ phase' = "done"

\* the call, up to its first await: the default case of callAi returns at
\* once, every other path issues its fetch and arms the timer
Invoke(o) ==
    /\ phase = "idle"
    /\ o = "callAi" \/ settings.provider = OLLAMA
    /\ op' = o
    /\ IF o = "callAi" /\ Adapter(settings.provider) = NoAdapter
       THEN /\ Finish(o, Return(Fail(UnknownProvider \o settings.provider)))
            /\ UNCHANGED <<requests, timerArmed, startedAt>>
       ELSE /\ phase' = "fetching"
            /\ requests' = requests + 1
            /\ timerArmed' = TRUE
            /\ startedAt' = now
            /\ UNCHANGED <<settled, result, rawError>>
    /\ UNCHANGED <<settings, now, bodyRead, response, shown>>
    /\ UNCHANGED notCallVars

\* fetch rejects: no response arrived
FetchRejects(e) ==
    /\ phase = "fetching"
    /\ timerArmed' = FALSE
    /\ Finish(op, FetchCatch(e))
    /\ UNCHANGED <<settings, op, now, startedAt, requests, bodyRead, response, shown>>
    /\ UNCHANGED notCallVars

\* the timer of fetchWithTimeout elapses while fetch is pending
TimerFires ==
    /\ phase = "fetching"
    /\ timerArmed
    /\ now >= startedAt + Timeout(op)
    /\ timerArmed' = FALSE
    /\ Finish(op, FetchCatch(AbortError))
    /\ UNCHANGED <<settings, op, now, startedAt, requests, bodyRead, response, shown>>
    /\ UNCHANGED notCallVars

\* fetch resolves with the response headers: the finally of fetchWithTimeout
\* clears the timer, then the caller tests res.ok and calls res.json()
HeadersArrive(status) ==
    /\ phase = "fetching"
    /\ timerArmed' = FALSE
    /\ response' = [kind |-> "headers", status |-> status]
    /\ IF ~ResOk(status)
       THEN /\ Finish(op, IF op = "callAi" THEN StatusFailure(status)
                          ELSE LookupStatusFailure(op))
            /\ UNCHANGED bodyRead
       ELSE /\ phase' = "readingBody"
            /\ bodyRead' = TRUE
            /\ UNCHANGED <<settled, result, rawError>>
    /\ UNCHANGED <<settings, op, now, startedAt, requests, shown>>
    /\ UNCHANGED notCallVars

\* res.json() resolves with the parsed body
BodyArrives(data) ==
    /\ phase = "readingBody"
    /\ response' = [kind |-> "body", status |-> response.status, data |-> data]
    /\ Finish(op, BodyOutcome(op, settings.provider, data))
    /\ UNCHANGED <<settings, op, now, startedAt, timerArmed, requests, bodyRead, shown>>
    /\ UNCHANGED notCallVars

\* res.json() rejects
BodyFails(e) ==
    /\ phase = "readingBody"
    /\ response' = [kind |-> "bodyError", status |-> response.status]
    /\ Finish(op, e)
    /\ UNCHANGED <<settings, op, now, startedAt, timerArmed, requests, bodyRead, shown>>
    /\ UNCHANGED notCallVars

\* time passes while the call is pending; an armed timer fires at its
\* deadline, so the clock does not pass the deadline while it is armed
Tick ==
    /\ phase \in {"fetching", "readingBody"}
    /\ now < MaxTime
    /\ timerArmed => now < startedAt + Timeout(op)
    /\ now' = Min(Min(now + TickMs, MaxTime),
                  IF timerArmed THEN startedAt + Timeout(op) ELSE MaxTime)
    /\ UNCHANGED <<settings, op, phase, startedAt, timerArmed, requests,
                   bodyRead, response, settled, result, rawError, shown>>
    /\ UNCHANGED notCallVars

\* the connection test of the settings tab shows a failure:
\* t.testFail(result.error || "Unknown error")
ShowTestResult ==
    /\ phase = "done"
    /\ op = "callAi"
    /\ settled = "resolved"
    /\ ~result.ok
    /\ shown' = IF result.error # <<>> THEN result.error ELSE UnknownError
    /\ phase' = "displayed"
    /\ UNCHANGED <<settings, op, now, startedAt, timerArmed, requests,
                   bodyRead, response, settled, result, rawError>>
    /\ UNCHANGED notCallVars

Next ==
    \/ \E o \in {"callAi", "list", "show"} : Invoke(o)
    \/ \E e \in NetErrors : FetchRejects(e)
    \/ TimerFires
    \/ \E status \in Statuses : HeadersArrive(status)
    \/ \E data \in Bodies(op, settings.provider) : BodyArrives(data)
    \/ \E e \in BodyErrors : BodyFails(e)
    \/ Tick
    \/ ShowTestResult

Spec == Init /\ [][Next]_vars

---------------------------------------------------------------------------
(* Properties of one invocation *)

Finished == phase \in {"done", "displayed"}

\* the provider-specific content field of a parsed body
ContentField(provider, data) ==
    IF provider = GEMINI THEN data.text ELSE data.content

C2_SuccessText ==
    (op = "callAi" /\ Finished /\ response.kind = "body") =>
        LET c == ContentField(settings.provider, response.data)
        IN  (c.t = "string" /\ c.v # <<>>) =>
                settled = "resolved" /\ result = Ok(c)

\* the failure text names the cause of an empty Gemini answer: the prompt's
\* block reason if there is one, else the candidate's finish reason
NamesCause(error, data) ==
    IF Truthy(data.blockReason) THEN Includes(error, ToStr(data.blockReason))
    ELSE IF data.finishReason = JsStr(FinishSafety)
    THEN Includes(error, <<"s","a","f","e","t","y">>)
    ELSE IF data.finishReason = JsStr(FinishMaxTokens)
    THEN Includes(error, <<"m","a","x"," ","t","o","k","e","n","s">>)
    ELSE IF data.finishReason = JsStr(FinishRecitation)
    THEN Includes(error, <<"r","e","c","i","t","a","t","i","o","n">>)
    ELSE IF Truthy(data.finishReason)
    THEN Includes(error, ToStr(data.finishReason))
    ELSE TRUE

\* C3: for each of the four providers, a 2xx response whose content field is
\* missing or empty makes callAi return a failure with a non-empty error
\* text; for gemini the text names the cause, the block reason before the
\* finish reason.
C3_EmptyContentDiagnosed ==
    (op = "callAi" /\ Finished /\ response.kind = "body") =>
        LET c == ContentField(settings.provider, response.data)
        IN  (c.t \in {"undefined", "null"} \/ c = JsStr(<<>>)) =>
                /\ settled = "resolved"
                /\ ~result.ok
                /\ result.error # <<>>
                /\ settings.provider = GEMINI =>
                      NamesCause(result.error, response.data)

\* C4: a status outside 200-299 makes callAi return the failure
\* "Request failed, status <code>" with exactly that status, and the body
\* of the response is never read.
C4_StatusFailure ==
    (/\ op = "callAi"
     /\ response.kind # "none"
     /\ ~(response.status >= 200 /\ response.status <= 299)) =>
        /\ Finished
        /\ settled = "resolved"
        /\ result = Fail(RequestFailedStatus \o DecStr(response.status))
        /\ ~bodyRead

\* the OpenAI adapter has answered a 401
C4_Witness ==
    /\ op = "callAi"
    /\ settings.provider = OPENAI
    /\ response = [kind |-> "headers", status |-> 401]
    /\ result = Fail(<<"R","e","q","u","e","s","t"," ","f","a","i","l","e","d",",",
                       " ","s","t","a","t","u","s"," ","4","0","1">>)

\* C5: one invocation issues at most one outbound request, and with a
\* provider id outside the four known ones callAi has failed at once,
\* without any request.
C5_AtMostOneRequest ==
    /\ requests <= 1
    /\ (op = "callAi" /\ settings.provider \notin KnownProviders) =>
          /\ requests = 0
          /\ Finished
          /\ settled = "resolved"
          /\ ~result.ok
          /\ response.kind = "none"

\* callAi has answered an unknown provider id
C5_Witness ==
    /\ op = "callAi"
    /\ settings.provider = BOGUS
    /\ requests = 0
    /\ result = Fail(UnknownProvider \o BOGUS)

\* C6: a call that has issued its request is no longer pending once its
\* timer (30 s for callAi, 5 s for the Ollama lookups) has elapsed, also when
\* the server has sent the headers and never finishes the body; a callAi
\* ended by the timer fails with "Request timed out".
C6_BoundedByTimeout ==
    /\ phase \in {"fetching", "readingBody"} => now <= startedAt + Timeout(op)
    /\ (op = "callAi" /\ Finished /\ rawError = RequestTimedOut) =>
          result = Fail(RequestTimedOut)

\* C7: every error text callAi returns, and every one the settings tab
\* shows, is the redaction (with the provider's API key as known secret) of
\* the failure text, on every failure path.
C7_ErrorsRedacted ==
    (op = "callAi" /\ settled = "resolved" /\ ~result.ok) =>
        /\ result.error = redactError(rawError, getApiKey(settings))
        /\ phase = "displayed" =>
              shown \in {redactError(rawError, getApiKey(settings)), UnknownError}

\* a lookup ended in one of the failures: no response, a status that is not
\* 2xx, a body that is no JSON, a body without a models array or without
\* details
LookupFailed ==
    \/ response.kind \in {"none", "bodyError"}
    \/ ~ResOk(response.status)
    \/ /\ response.kind = "body"
       /\ \/ op = "list" /\ response.data.models.t # "array"
          \/ op = "show" /\ response.data.details.t \in {"undefined", "null"}

---------------------------------------------------------------------------
(* The redactor applied to bounded texts *)

\* the known secrets tried: none, one of 4 characters, two longer ones
RedactKeys == {<<>>, KeyShort, KeyLong, KeyBracket}

\* the pieces an error text is put together from; piece 1 is the secret
Fragment(n, k) ==
    CASE n = 1 -> k
      [] n = 2 -> <<"&","k","e","y","=","v","1">>
      [] n = 3 -> <<"&","t","o","k","e","n","=","v","1">>
      [] n = 4 -> <<" ">>
      [] n = 5 -> <<"A","u","t","h","o","r","i","z","a","t","i","o","n",":"," ">>
      [] n = 6 -> <<"B","e","a","r","e","r"," ">>
      [] n = 7 -> <<"X","-","G","o","o","g","-","A","p","i","-","K","e","y",":"," ">>
      [] n = 8 -> <<"x","-","a","p","i","-","k","e","y",":">>
      [] n = 9 -> <<"h","t","t","p","s",":","/","/","H",".","i","o","/","p">>
      [] n = 10 -> <<"?","q","=","1">>
      [] n = 11 -> <<"a","b","c","d">>

FragmentIds == 1..11

RECURSIVE Concat(_, _)
Concat(fs, k) ==
    IF fs = <<>> THEN <<>> ELSE Fragment(Head(fs), k) \o Concat(Tail(fs), k)

RedactInputs(k) ==
    {Concat(fs, k) : fs \in UNION {[1..n -> FragmentIds] : n \in 0..MaxFrags}}

\* the state of the call model while a redaction run is explored
CallIdle ==
    /\ settings = [provider |-> GEMINI, providers |-> NoProviders]
    /\ op = "none"
    /\ phase = "off"
    /\ now = 0
    /\ startedAt = 0
    /\ timerArmed = FALSE
    /\ requests = 0
    /\ bodyRead = FALSE
    /\ response = [kind |-> "none"]
    /\ settled = "pending"
    /\ result = [t |-> "none"]
    /\ rawError = <<>>
    /\ shown = <<>>

RedactInit ==
    /\ rk \in RedactKeys
    /\ rx \in RedactInputs(rk)
    /\ rout1 = <<>>
    /\ rout2 = <<>>
    /\ rpc = "start"
    /\ CallIdle
    /\ ResolveIdle
    /\ DiagIdle
    /\ TabIdle

\* redactError(x, k)
RedactOnce ==
    /\ rpc = "start"
    /\ rout1' = redactError(rx, rk)
    /\ rpc' = "once"
    /\ UNCHANGED <<rx, rk, rout2>>
    /\ UNCHANGED notRedactVars

\* redactError(redactError(x, k), k)
RedactTwice ==
    /\ rpc = "once"
    /\ rout2' = redactError(rout1, rk)
    /\ rpc' = "twice"
    /\ UNCHANGED <<rx, rk, rout1>>
    /\ UNCHANGED notRedactVars

RedactNext == RedactOnce \/ RedactTwice

SpecRedact == RedactInit /\ [][RedactNext]_vars

\* C8: redactError is idempotent: redacting an already redacted text with
\* the same known secret changes nothing.
C8_Idempotent == rpc = "twice" => rout2 = rout1

\* C9: with a known secret longer than 4 characters the redacted text holds
\* no occurrence of the secret; a secret of 4 characters or fewer is not
\* literally replaced (the text is redacted as if no secret were known).
C9_NoSecretInOutput ==
    rpc # "start" =>
        /\ Len(rk) > 4 => ~Includes(rout1, rk)
        /\ Len(rk) <= 4 => rout1 = redactError(rx, <<>>)

---------------------------------------------------------------------------
(* The settings resolver applied to bounded settings objects *)

ModelM1 == <<"m","1">>
ModelM2 == <<"m","2">>
ModelM3 == <<"m","3">>

\* per-provider maps: empty, an entry of the active provider with a key, a
\* model, both or neither, an entry of ollama with a model, and entries of
\* two providers
ProviderMaps(p) ==
    {NoProviders}
    \cup {[q \in {p} |-> e] :
            e \in {[apiKey |-> KeyShort, model |-> <<>>],
                   [apiKey |-> <<>>, model |-> ModelM3],
                   [apiKey |-> KeyShort, model |-> ModelM3],
                   EmptyEntry}}
    \cup {[q \in {OLLAMA} |-> [apiKey |-> <<>>, model |-> ModelM3]],
          [q \in {OPENAI, OLLAMA} |-> [apiKey |-> KeyShort, model |-> ModelM3]]}

\* persona objects as saved by the versions of the plugin
Personas ==
    {[selected |-> CustomSelected],
     [selected |-> CustomSelected,
      custom |-> [DEFAULT_PERSONA_CUSTOM EXCEPT !.name = Hi]]}

\* the settings objects migrateSettings is given: the legacy flat shape, the
\* per-provider shape and mixes of the two, with and without persona
ResolveInputs ==
    UNION {
        {Merge(Merge(Merge(Merge(Merge(
            [enabled |-> e, provider |-> p, ollamaUrl |-> DefaultUrl], k), m), o), pm), pe) :
            e \in BOOLEAN,
            k \in Optional("apiKey", {<<>>, KeyLong}),
            m \in Optional("model", {ModelM1}),
            o \in Optional("ollamaModel", {JsStr(<<>>), JsStr(ModelM2), JsNum(5)}),
            pm \in Optional("providers", ProviderMaps(p)),
            pe \in Optional("persona", Personas)} :
        p \in KnownProviders \cup {BOGUS}}

ResolveInit ==
    /\ ps \in ResolveInputs
    /\ pm1 = [enabled |-> FALSE]
    /\ pm2 = [enabled |-> FALSE]
    /\ pconf = FALSE
    /\ pmodel = <<>>
    /\ ppc = "start"
    /\ CallIdle
    /\ RedactIdle
    /\ DiagIdle
    /\ TabIdle

\* loadSettings: this.settings = migrateSettings(this.settings)
Migrate ==
    /\ ppc = "start"
    /\ pm1' = migrateSettings(ps)
    /\ ppc' = "once"
    /\ UNCHANGED <<ps, pm2, pconf, pmodel>>
    /\ UNCHANGED notResolveVars

\* the next load: migrateSettings on what the first one returned
MigrateAgain ==
    /\ ppc = "once"
    /\ pm2' = migrateSettings(pm1)
    /\ ppc' = "twice"
    /\ UNCHANGED <<ps, pm1, pconf, pmodel>>
    /\ UNCHANGED notResolveVars

\* plugin.isConfigured() on the migrated settings
AskConfigured ==
    /\ ppc = "twice"
    /\ pconf' = isConfigured(pm1)
    /\ ppc' = "configured"
    /\ UNCHANGED <<ps, pm1, pm2, pmodel>>
    /\ UNCHANGED notResolveVars

\* getModel(plugin.settings) on the migrated settings
AskModel ==
    /\ ppc = "configured"
    /\ pmodel' = getModel(pm1)
    /\ ppc' = "model"
    /\ UNCHANGED <<ps, pm1, pm2, pconf>>
    /\ UNCHANGED notResolveVars

ResolveNext == Migrate \/ MigrateAgain \/ AskConfigured \/ AskModel

SpecResolve == ResolveInit /\ [][ResolveNext]_vars

\* the key stored for the active provider of s is non-empty
HasStoredKey(s) ==
    /\ s.provider \in DOMAIN s.providers
    /\ s.providers[s.provider].apiKey # <<>>

\* C11: isConfigured() is true exactly when the settings are enabled, the
\* provider is one of the ids of PROVIDERS and, for a provider that needs an
\* API key (all but ollama), the key stored for it is non-empty; so it is
\* true for an enabled ollama with no key and no stored model.
C11_IsConfigured ==
    ppc \in {"configured", "model"} =>
        /\ pconf = (/\ pm1.enabled
                    /\ pm1.provider \in {GEMINI, OPENAI, ANTHROPIC, OLLAMA}
                    /\ pm1.provider # OLLAMA => HasStoredKey(pm1))
        /\ (pm1.enabled /\ pm1.provider = OLLAMA) => pconf

\* isConfigured() has answered true for an enabled ollama without an entry
C11_Witness ==
    /\ ppc = "configured"
    /\ pm1.enabled
    /\ pm1.provider = OLLAMA
    /\ OLLAMA \notin DOMAIN pm1.providers
    /\ pconf

\* C12: for each of the four providers getModel returns the stored model
\* when it is non-empty, and otherwise (no entry, or an entry whose model is
\* the empty string) the provider's default model, which is never empty.
C12_GetModel ==
    (ppc = "model" /\ pm1.provider \in KnownProviders) =>
        LET stored == IF pm1.provider \in DOMAIN pm1.providers
                      THEN pm1.providers[pm1.provider].model ELSE <<>>
            default == CASE pm1.provider = GEMINI -> <<"g","e","m","i","n","i","-","2",".","5","-","f","l","a","s","h">>
                         [] pm1.provider = OPENAI -> <<"g","p","t","-","4","o","-","m","i","n","i">>
                         [] pm1.provider = ANTHROPIC ->
                              <<"c","l","a","u","d","e","-","s","o","n","n","e","t","-","4","-","2","0","2","5","0","5","1","4">>
                         [] pm1.provider = OLLAMA -> <<"g","e","m","m","a","3",":","1","2","b">>
        IN  /\ pmodel # <<>>
            /\ pmodel = (IF stored # <<>> THEN stored ELSE default)

\* getModel has answered the default for a gemini entry with an empty model
C12_Witness ==
    /\ ppc = "model"
    /\ pm1.provider = GEMINI
    /\ GEMINI \in DOMAIN pm1.providers
    /\ pm1.providers[GEMINI].model = <<>>
    /\ pmodel = <<"g","e","m","i","n","i","-","2",".","5","-","f","l","a","s","h">>

\* C13: migrateSettings is idempotent: migrating what a migration returned
\* gives the same settings object, for the legacy shape, the per-provider
\* shape and their mixes, with or without persona.
C13_MigrateIdempotent ==
    ppc \in {"twice", "configured", "model"} => pm2 = pm1

\* a legacy flat object has been migrated twice
C13_Witness ==
    /\ ppc = "twice"
    /\ "providers" \notin DOMAIN ps
    /\ "apiKey" \in DOMAIN ps
    /\ ps.apiKey = KeyLong
    /\ ps.provider = GEMINI
    /\ pm1.providers[GEMINI].apiKey = KeyLong
    /\ pm2 = pm1

\* the per-provider map of the settings given to migrateSettings
InputProviders == IF "providers" \in DOMAIN ps THEN ps.providers ELSE NoProviders

\* the entry of provider q in a per-provider map, empty when there is none
EntryOf(map, q) == IF q \in DOMAIN map THEN map[q] ELSE EmptyEntry

\* the legacy values migrateSettings may copy into field f of provider q
LegacyFor(q, f) ==
    (IF q = ps.provider /\ f \in DOMAIN ps THEN {ps[f]} ELSE {})
    \cup (IF /\ q = OLLAMA
             /\ f = "model"
             /\ "ollamaModel" \in DOMAIN ps
             /\ ps.ollamaModel.t = "string"
          THEN {ps.ollamaModel.v} ELSE {})

\* C14: migrateSettings never overwrites a per-provider value: a non-empty
\* apiKey or model of any entry is the same after the migration, whatever the
\* legacy fields hold; a slot changes only from empty to a legacy value meant
\* for it, and only entries of the active provider and of ollama are touched
\* or created.
C14_NoOverwrite ==
    ppc # "start" /\ ppc # "off" =>
        /\ DOMAIN pm1.providers \subseteq
              DOMAIN InputProviders \cup {ps.provider, OLLAMA}
        /\ \A q \in DOMAIN pm1.providers : \A f \in {"apiKey", "model"} :
              LET before == EntryOf(InputProviders, q)[f]
                  after == pm1.providers[q][f]
              IN  /\ before # <<>> => after = before
                  /\ after # before => after \in LegacyFor(q, f)
                  /\ q \notin {ps.provider, OLLAMA} =>
                        pm1.providers[q] = InputProviders[q]

\* a stored key has survived a migration with a different legacy key
C14_Witness ==
    /\ ppc = "once"
    /\ "apiKey" \in DOMAIN ps
    /\ ps.apiKey = KeyLong
    /\ "providers" \in DOMAIN ps
    /\ ps.provider \in DOMAIN ps.providers
    /\ ps.providers[ps.provider].apiKey = KeyShort
    /\ pm1.providers[ps.provider].apiKey = KeyShort

\* C15: after migrateSettings none of the legacy fields apiKey, model and
\* ollamaModel is left on the object, whatever they held (an empty or
\* non-string ollamaModel included), and persona and persona.custom exist.
C15_LegacyFieldsRemoved ==
    ppc # "start" /\ ppc # "off" =>
        /\ DOMAIN pm1 \cap {"apiKey", "model", "ollamaModel"} = {}
        /\ "persona" \in DOMAIN pm1
        /\ "custom" \in DOMAIN pm1.persona

---------------------------------------------------------------------------
(* The diagnostics applied to bounded model names and parameter sizes *)

\* what follows the family in a model name
NameSuffixes == {<<>>, <<"-","7","b">>, <<":","8","b">>, <<".","1">>}

\* model names: every family of the table with every suffix, and names of
\* no family
DiagNames ==
    {JAPANESE_RATINGS[i].family \o x : i \in DOMAIN JAPANESE_RATINGS, x \in NameSuffixes}
    \cup {<<"q","w","e","n">>,
            <<"Q","w","e","n","2",".","5">>,
            <<"l","l","a","m","a">>,
            <<"p","h","i","-">>,
            <<"x","m","i","s","t","r","a","l">>,
            <<"c","o","d","e","l","l","a","m","a">>}

\* parameter sizes as /api/show reports them: integer and decimal billions,
\* millions, a mixture-of-experts form
DiagSizes ==
    {<<"1","B">>,
     <<"2","B">>,
     <<"3","B">>,
     <<"4","B">>,
     <<"7","B">>,
     <<"8","B">>,
     <<"9","B">>,
     <<"1","0","B">>,
     <<"1","3","B">>,
     <<"1","4","B">>,
     <<"1","5","B">>,
     <<"2","0","B">>,
     <<"2","7","B">>,
     <<"3","2","B">>,
     <<"3","4","B">>,
     <<"3","5","B">>,
     <<"7","0","B">>,
     <<"7","2","B">>,
     <<"6","7","1","B">>,
     <<"1","3","7","M">>,
     <<"1",".","5","B">>,
     <<"1",".","7","B">>,
     <<"7",".","6","B">>,
     <<"1","4",".","8","B">>,
     <<"8",".","0","B">>,
     <<"7","b">>,
     <<"8","x","7","B">>}

DiagInit ==
    /\ dname \in DiagNames
    /\ dsize \in DiagSizes
    /\ drate = UnknownRating
    /\ ddiag = [parameterSize |-> <<>>]
    /\ dpc = "start"
    /\ CallIdle
    /\ RedactIdle
    /\ ResolveIdle
    /\ TabIdle

\* getJapaneseRating(modelName)
Rate ==
    /\ dpc = "start"
    /\ drate' = getJapaneseRating(dname)
    /\ dpc' = "rated"
    /\ UNCHANGED <<dname, dsize, ddiag>>
    /\ UNCHANGED notDiagVars

\* showOllamaDiagnostics: diagnoseModel(modelName, details.parameter_size)
Diagnose ==
    /\ dpc = "rated"
    /\ ddiag' = diagnoseModel(dname, dsize)
    /\ dpc' = "diagnosed"
    /\ UNCHANGED <<dname, dsize, drate>>
    /\ UNCHANGED notDiagVars

DiagNext == Rate \/ Diagnose

SpecDiag == DiagInit /\ [][DiagNext]_vars

\* family is a prefix of name
IsPrefix(family, name) ==
    /\ Len(family) <= Len(name)
    /\ SubSeq(name, 1, Len(family)) = family

\* C17: getJapaneseRating returns the entry of the longest family of the
\* table that is a prefix of the model name ("qwen2.5-7b" gets "qwen2.5",
\* "llama3.1:8b" gets "llama3.1"), and rating "?" with recommended false
\* when no family is a prefix.
C17_LongestPrefix ==
    dpc \in {"rated", "diagnosed"} =>
        LET matching == {i \in DOMAIN JAPANESE_RATINGS :
                            IsPrefix(JAPANESE_RATINGS[i].family, dname)}
        IN  IF matching = {}
            THEN drate.rating = "?" /\ ~drate.recommended
            ELSE \E i \in matching :
                    /\ \A j \in matching :
                          Len(JAPANESE_RATINGS[j].family) <= Len(JAPANESE_RATINGS[i].family)
                    /\ drate = JAPANESE_RATINGS[i]

\* "qwen2.5-7b" has been rated by the "qwen2.5" entry
C17_Witness ==
    /\ dpc = "rated"
    /\ dname = <<"q","w","e","n","2",".","5","-","7","b">>
    /\ drate.family = <<"q","w","e","n","2",".","5">>

\* the digits of s up to position n, as a number
RECURSIVE NatOf(_, _)
NatOf(s, n) ==
    IF n = 0 THEN 0
    ELSE 10 * NatOf(s, n - 1) + (CHOOSE d \in 0..9 : DigitChars[d + 1] = s[n])

\* s is digits, optionally a point and one more digit, then B or b
IsBillions(s) ==
    /\ Len(s) >= 2
    /\ LowerOf(s[Len(s)]) = "b"
    /\ \/ \A i \in 1..(Len(s) - 1) : IsDigit(s[i])
       \/ /\ Len(s) >= 4
          /\ s[Len(s) - 2] = "."
          /\ IsDigit(s[Len(s) - 1])
          /\ \A i \in 1..(Len(s) - 3) : IsDigit(s[i])

\* the whole billions of the size s denotes ("14.8B" is 14)
WholeBillions(s) ==
    IF \A i \in 1..(Len(s) - 1) : IsDigit(s[i])
    THEN NatOf(s, Len(s) - 1)
    ELSE NatOf(s, Len(s) - 3)

\* the class the size ranges give to a size of n billions
ClassOfSize(n) ==
    IF n >= 1 /\ n <= 3 THEN [recommendedContext |-> C128k, note |-> JsStr(NoteSmall)]
    ELSE IF n >= 7 /\ n <= 8 THEN [recommendedContext |-> C32k, note |-> JsStr(Note8B)]
    ELSE IF n >= 10 /\ n <= 14 THEN [recommendedContext |-> C32k, note |-> JsStr(Note14B)]
    ELSE IF n >= 20 /\ n <= 34 THEN [recommendedContext |-> C16k, note |-> JsStr(NoteMid)]
    ELSE IF n >= 70 /\ n <= 72 THEN [recommendedContext |-> C8k, note |-> JsStr(NoteLarge)]
    ELSE [recommendedContext |-> C8k, note |-> JsUndef]

\* C18: diagnoseModel classifies a parameter size, in its integer form
\* ("7B") and in its decimal form ("1.5B", "7.6B", "14.8B"), by the size it
\* denotes: 1-3B, 7-8B, 10-14B, 20-34B and 70-72B each get their context and
\* note, every other size gets 8k and no note, and no size gets the class of
\* another range.
C18_SizeClass ==
    (dpc = "diagnosed" /\ IsBillions(dsize)) =>
        /\ ddiag.recommendedContext = ClassOfSize(WholeBillions(dsize)).recommendedContext
        /\ ddiag.note = ClassOfSize(WholeBillions(dsize)).note

---------------------------------------------------------------------------
(* The settings tab explored *)

\* String.prototype.trim
RECURSIVE TrimStart(_)
TrimStart(s) == IF s # <<>> /\ IsSpace(Head(s)) THEN TrimStart(Tail(s)) ELSE s
RECURSIVE TrimEnd(_)
TrimEnd(s) ==
    IF s # <<>> /\ IsSpace(s[Len(s)]) THEN TrimEnd(SubSeq(s, 1, Len(s) - 1)) ELSE s
Trim(s) == TrimEnd(TrimStart(s))

\* display(): the tab is rendered from settings object c; with ollama
\* enabled a renderOllamaModelSelector call starts, and an empty
\* persona.selected is synced to "default"
Display(h, c, ls) ==
    LET enabled == h.objs[c].enabled
        listing == enabled /\ h.objs[c].provider = OLLAMA
        synced == IF enabled /\ PersonaOf(h, c).selected = <<>>
                  THEN WithPersona(h, c,
                          [PersonaOf(h, c) EXCEPT !.selected = DefaultSelected])
                  ELSE h
    IN  [heap |-> synced,
         listings |->
            IF listing
            THEN Append(ls, [s |-> c, currentModel |-> OllamaModelOf(h, c),
                             state |-> "pending", dirty |-> FALSE,
                             uiWrote |-> FALSE])
            ELSE ls,
         attached |-> IF listing THEN Len(ls) + 1 ELSE 0]

\* display() can start its listing
CanDisplay(h, c) ==
    (h.objs[c].enabled /\ h.objs[c].provider = OLLAMA) => Len(listings) < MaxListings

\* every call in flight has seen a write of the settings by another task
Dirtied(ls, uiModel) ==
    [l \in DOMAIN ls |->
        IF ls[l].state = "pending"
        THEN [ls[l] EXCEPT !.dirty = TRUE, !.uiWrote = @ \/ uiModel]
        ELSE ls[l]]

\* what data.json holds when the plugin loads: nothing (first start), the
\* flat shape of v0.1.0, the per-provider shape saved before personas
\* existed, and the shape the current version saves
LoadData ==
    {[g \in {} |-> <<>>],
     [enabled |-> TRUE, provider |-> GEMINI, apiKey |-> KeyLong,
      model |-> ModelM1, ollamaUrl |-> DefaultUrl],
     [enabled |-> TRUE, provider |-> OLLAMA, ollamaUrl |-> DefaultUrl,
      providers |-> [q \in {OLLAMA} |-> [apiKey |-> <<>>, model |-> Gemma]]],
     [enabled |-> TRUE, provider |-> OLLAMA, ollamaUrl |-> DefaultUrl,
      providers |-> NoProviders, persona |-> DEFAULT_PERSONA_SETTINGS]}

\* what the user types into a text field
TypedKeys == {KeyLong \o <<" ">>, <<" ">>}
TypedModels == {ModelM1}
TypedUrls == {<<"h">>}
TypedTexts == {Hi}

\* the arrays listOllamaModels resolves to
ModelLists ==
    {<<>>,
     <<[name |-> Gemma, size |-> 8]>>,
     <<[name |-> Qwen, size |-> 4]>>,
     <<[name |-> Gemma, size |-> 8], [name |-> Qwen, size |-> 4]>>}

\* the plugin constructed, before onload: data.json as it is on disk
TabInit ==
    /\ heap = [dflt |-> PristineDefaults, objs |-> <<>>]
    /\ cur = 0
    /\ tab = [open |-> FALSE, attached |-> 0, dropdown |-> {}, last |-> "none"]
    /\ listings = <<>>
    /\ saved \in LoadData
    /\ lang \in {"ja", "en"}
    /\ events = 0
    /\ CallIdle
    /\ RedactIdle
    /\ ResolveIdle
    /\ DiagIdle

\* onload: loadSettings, then the tab is registered
LoadSettings ==
    /\ cur = 0
    /\ heap' = Loaded(heap, saved)
    /\ cur' = 1
    /\ saved' = Snapshot(heap', 1)
    /\ tab' = [tab EXCEPT !.last = "load"]
    /\ UNCHANGED <<listings, lang, events>>
    /\ UNCHANGED notTabVars

\* the user opens the settings tab: display()
OpenTab ==
    /\ cur > 0
    /\ CanDisplay(heap, cur)
    /\ \E d \in {Display(heap, cur, listings)} :
          /\ heap' = d.heap
          /\ listings' = d.listings
          /\ tab' = [open |-> TRUE, attached |-> d.attached, dropdown |-> {},
                     last |-> "open"]
          /\ saved' = IF d.heap # heap THEN Snapshot(d.heap, cur) ELSE saved
    /\ UNCHANGED <<cur, lang, events>>
    /\ UNCHANGED notTabVars

\* a handler of the tab has written the settings (heap h1, plugin.settings
\* c1): it saves, and with redisplay it calls display()
Handle(kind, h1, c1, redisplay) ==
    /\ tab.open
    /\ events < MaxEvents
    /\ redisplay => CanDisplay(h1, c1)
    /\ \E d \in {IF redisplay THEN Display(h1, c1, Dirtied(listings, kind = "model"))
                 ELSE [heap |-> h1, listings |-> Dirtied(listings, kind = "model"),
                       attached |-> tab.attached]} :
          /\ heap' = d.heap
          /\ listings' = d.listings
          /\ tab' = [open |-> TRUE, attached |-> d.attached,
                     dropdown |-> IF redisplay THEN {} ELSE tab.dropdown,
                     last |-> kind]
          /\ saved' = Snapshot(d.heap, c1)
    /\ cur' = c1
    /\ events' = events + 1
    /\ UNCHANGED lang
    /\ UNCHANGED notTabVars

\* the enable toggle
ToggleEnabled ==
    /\ tab.open
    /\ Handle("enabled", [heap EXCEPT !.objs[cur].enabled = ~@], cur, TRUE)

\* the provider dropdown, shown when enabled
ChangeProvider(p) ==
    /\ tab.open /\ heap.objs[cur].enabled
    /\ p # heap.objs[cur].provider
    /\ Handle("provider", [heap EXCEPT !.objs[cur].provider = p], cur, TRUE)

\* the provider the tab was rendered for: PROVIDERS.find(...) || PROVIDERS[0]
CurrentProvider(h, c) ==
    IF FindProvider(h.objs[c].provider) = 0 THEN PROVIDERS[1]
    ELSE PROVIDERS[FindProvider(h.objs[c].provider)]

\* the API key field, shown when the provider needs a key
EditApiKey(v) ==
    /\ tab.open /\ heap.objs[cur].enabled
    /\ CurrentProvider(heap, cur).needsApiKey
    /\ Handle("apiKey",
              WriteEntry(ensureProvider(heap, cur, heap.objs[cur].provider), cur,
                         heap.objs[cur].provider, "apiKey", Trim(v)),
              cur, FALSE)

\* the Ollama URL field
EditUrl(v) ==
    /\ tab.open /\ heap.objs[cur].enabled
    /\ heap.objs[cur].provider = OLLAMA
    /\ Handle("url",
              [heap EXCEPT !.objs[cur].ollamaUrl =
                    IF Trim(v) # <<>> THEN Trim(v) ELSE DefaultUrl],
              cur, FALSE)

\* the model text field of a cloud provider
EditModel(v) ==
    /\ tab.open /\ heap.objs[cur].enabled
    /\ heap.objs[cur].provider # OLLAMA
    /\ Handle("modelText",
              WriteEntry(ensureProvider(heap, cur, heap.objs[cur].provider), cur,
                         heap.objs[cur].provider, "model", Trim(v)),
              cur, FALSE)

\* the persona dropdown
SelectPersona(v) ==
    /\ tab.open /\ heap.objs[cur].enabled
    /\ v # PersonaOf(heap, cur).selected
    /\ Handle("persona",
              WithPersona(heap, cur, [PersonaOf(heap, cur) EXCEPT !.selected = v]),
              cur, TRUE)

\* the fields of the custom persona, shown when it is selected
EditCustom(field, v) ==
    /\ tab.open /\ heap.objs[cur].enabled
    /\ PersonaOf(heap, cur).selected = CustomSelected
    /\ Handle("custom",
              WithPersona(heap, cur,
                  [PersonaOf(heap, cur) EXCEPT !.custom[field] =
                      IF field = "name" /\ Trim(v) = <<>> THEN MUSE ELSE Trim(v)]),
              cur, FALSE)

\* the reset button: this.plugin.settings = JSON.parse(JSON.stringify(
\* DEFAULT_AI_SETTINGS)), save, display()
Reset ==
    /\ tab.open
    /\ Handle("reset",
              [heap EXCEPT !.objs = Append(@,
                  OwnObject([enabled |-> FALSE, provider |-> GEMINI,
                             ollamaUrl |-> DefaultUrl,
                             providers |-> heap.dflt.providers,
                             persona |-> heap.dflt.persona]))],
              Len(heap.objs) + 1, TRUE)

\* the onChange of the model dropdown that the attached call rendered
SelectModel(v) ==
    /\ tab.open
    /\ v \in tab.dropdown
    /\ Handle("model",
              WriteEntry(ensureProvider(heap, cur, OLLAMA), listings[tab.attached].s,
                         OLLAMA, "model", v),
              cur, FALSE)

\* listOllamaModels resolves call l with models: the rest of
\* renderOllamaModelSelector runs
ListingReturns(l, models) ==
    /\ l \in DOMAIN listings
    /\ listings[l].state = "pending"
    /\ \E sorted \in {SortModels(models, lang)} :
       \E c \in {Continuation(heap, cur, listings[l].s, listings[l].currentModel, sorted)} :
          /\ heap' = c.heap
          /\ saved' = IF c.wrote THEN Snapshot(c.heap, cur) ELSE saved
          /\ listings' =
                [k \in DOMAIN listings |->
                    IF k = l
                    THEN [s |-> listings[l].s,
                          currentModel |-> listings[l].currentModel,
                          state |-> IF c.threw THEN "rejected" ELSE "done",
                          dirty |-> listings[l].dirty,
                          uiWrote |-> listings[l].uiWrote,
                          models |-> sorted,
                          before |-> OllamaModelOf(heap, cur),
                          after |-> OllamaModelOf(c.heap, cur),
                          wrote |-> c.wrote,
                          savedAfter |-> IF OLLAMA \in DOMAIN saved'.providers
                                         THEN saved'.providers[OLLAMA].model
                                         ELSE <<>>]
                    ELSE IF listings[k].state = "pending" /\ c.heap # heap
                    THEN [listings[k] EXCEPT !.dirty = TRUE]
                    ELSE listings[k]]
          /\ tab' = [tab EXCEPT
                        !.dropdown = IF l = tab.attached /\ ~c.threw /\ sorted # <<>>
                                     THEN NamesOf(sorted) ELSE @,
                        !.last = "listing"]
    /\ UNCHANGED <<cur, lang, events>>
    /\ UNCHANGED notTabVars

TabNext ==
    \/ LoadSettings
    \/ OpenTab
    \/ ToggleEnabled
    \/ \E p \in KnownProviders : ChangeProvider(p)
    \/ \E v \in TypedKeys : EditApiKey(v)
    \/ \E v \in TypedUrls : EditUrl(v)
    \/ \E v \in TypedModels : EditModel(v)
    \/ \E v \in {DefaultSelected, CustomSelected} : SelectPersona(v)
    \/ \E f \in {"name", "firstPerson", "speechStyle", "tone"} :
          \E v \in TypedTexts : EditCustom(f, v)
    \/ Reset
    \/ \E v \in UNION {NamesOf(m) : m \in ModelLists} : SelectModel(v)
    \/ \E l \in 1..MaxListings : \E models \in ModelLists : ListingReturns(l, models)

SpecTab == TabInit /\ [][TabNext]_vars

\* C16: the settings are never written by overlapping tasks: a call of
\* renderOllamaModelSelector that writes providers.ollama.model after its
\* await has seen no write of the settings by another task (a handler of the
\* tab, or the continuation of another call) since it started, so it never
\* overwrites a model the dropdown handler stored after it captured the model.
C16_NoOverlappingWrites ==
    \A l \in DOMAIN listings :
        (listings[l].state # "pending" /\ listings[l].wrote) =>
            ~listings[l].dirty /\ ~listings[l].uiWrote

\* C19: the reset button leaves plugin.settings equal to the pristine
\* defaults, whatever load and edits came before; that is, the default
\* objects are never changed.
C19_ResetRestoresDefaults ==
    /\ heap.dflt = PristineDefaults
    /\ tab.last = "reset" => Snapshot(heap, cur) = DEFAULT_AI_SETTINGS

\* C20: when renderOllamaModelSelector completes, the stored ollama model is
\* empty if no model was listed, and otherwise the name of a listed model:
\* the one stored before if it is listed, else the first of the sorted list;
\* and a changed model has been saved.
C20_SelectorKeepsModelInList ==
    \A l \in DOMAIN listings :
        listings[l].state = "done" =>
            LET r == listings[l]
            IN  /\ r.models = <<>> => r.after = <<>>
                /\ r.models # <<>> =>
                      /\ r.after \in NamesOf(r.models)
                      /\ r.before \in NamesOf(r.models) => r.after = r.before
                      /\ r.before \notin NamesOf(r.models) => r.after = r.models[1].name
                /\ r.after # r.before => r.savedAfter = r.after

===========================================================================
